---- MODULE Spec2Model ----
(***************************************************************************)
(* Model of the mood/age feature resolver of src/spotify.js                *)
(* (getRecommendationsByMoodAndAge) as it is driven by the                 *)
(* POST /api/recommendations handler of the Node server.                   *)
(*                                                                         *)
(* Numbers.  Every entry of MOOD_FEATURES and every delta of               *)
(* AGE_ADJUSTMENTS is a multiple of 0.01, so all numbers are kept as       *)
(* integers counted in hundredths (0.85 is 85, a tempo of 120 is 12000).   *)
(* The binary rounding error of the handful of additions a run makes is    *)
(* far below 0.005 and is absorbed by toFixed(2) / Math.round, so the      *)
(* transmitted parameters are exactly those of the hundredths arithmetic.  *)
(***************************************************************************)
EXTENDS Integers, Sequences, FiniteSets, TLC

\* ------------------------------------------------------------------ bounds
\* Calls started in one run of the sequential specification.
MaxCalls == 3
\* Calls started in one run of the concurrent specification.
MaxConcCalls == 2
\* Calls that may be suspended at an await at the same time (concurrent spec).
MaxInFlight == 2

\* Mood logs the page tries to save in one run of the front-end specification.
MaxSaves == 3
\* Saves that may be awaiting their response at the same time.
MaxSaveSlots == 2
\* Largest value of the player's currentTime, in whole seconds.
MaxPlaySeconds == 1
\* play_seconds updates the page sends in one run.
MaxUpdates == 2

\* ------------------------------------------------------------ lookup tables
\* The number 1 of Math.min(1, ...), in hundredths.
One == 100

\* The floor 50 of Math.max(50, ...), in hundredths.
TempoFloor == 50 * One

Max(a, b) == IF a >= b THEN a ELSE b
Min(a, b) == IF a <= b THEN a ELSE b

\* MOOD_FEATURES as the module initialises it.
MoodFeaturesInit ==
  [ happy     |-> [valence |-> 80, energy |-> 75, danceability |-> 85, acousticness |-> 15, tempo |-> 12000],
    energetic |-> [valence |-> 85, energy |-> 85, danceability |-> 80, acousticness |-> 10, tempo |-> 13000],
    calm      |-> [valence |-> 30, energy |-> 20, danceability |-> 30, acousticness |-> 70, tempo |-> 7000],
    sad       |-> [valence |-> 20, energy |-> 25, danceability |-> 25, acousticness |-> 80, tempo |-> 6000],
    stressed  |-> [valence |-> 35, energy |-> 30, danceability |-> 40, acousticness |-> 60, tempo |-> 7500] ]

MoodKeys == DOMAIN MoodFeaturesInit

\* AGE_ADJUSTMENTS: per bracket the <<key, delta>> pairs in insertion order,
\* which is the order Object.keys enumerates them in.
AGE_ADJUSTMENTS ==
  ( "13-17" :> << <<"danceability", 5>>, <<"tempo", 1000>>, <<"energy", 3>> >> ) @@
  ( "18-25" :> << <<"danceability", 2>>, <<"tempo", 0>>, <<"energy", 0>> >> ) @@
  ( "26-35" :> << <<"acousticness", 3>>, <<"tempo", -500>> >> ) @@
  ( "36-50" :> << <<"acousticness", 5>>, <<"tempo", -1000>>, <<"energy", -5>> >> ) @@
  ( "50+"   :> << <<"acousticness", 8>>, <<"tempo", -1500>>, <<"energy", -10>> >> )

AgeBrackets == DOMAIN AGE_ADJUSTMENTS

MOOD_GENRES ==
  [ happy     |-> "pop,indie-pop,electro-pop",
    energetic |-> "dance,electronic,hip-hop",
    calm      |-> "ambient,indie-folk,acoustic",
    sad       |-> "indie,alternative,folk",
    stressed  |-> "lo-fi,chill-pop,singer-songwriter" ]

\* Property names every object literal inherits from Object.prototype and that
\* String.prototype.toLowerCase leaves unchanged; the value found under
\* "constructor" is the global function Object.
ObjectPrototypeProps == {"constructor"}

\* ------------------------------------------------------------------ inputs
\* Mood strings a request may carry: the five keys, one in another letter
\* case, one that names nothing, one that names an inherited property.
MoodInputs == MoodKeys \cup {"SAD", "Sad", "furious", "constructor"}

\* Age-group strings a request may carry: the five brackets and one other.
AgeInputs == AgeBrackets \cup {"90+"}

\* String.prototype.toLowerCase on the strings of MoodInputs.
ToLowerCase(s) == IF s \in {"SAD", "Sad"} THEN "sad" ELSE s

\* Values of age_group in a request body; "" stands for a missing or empty one.
BodyAgeGroups == AgeInputs \cup {""}

\* The default forgotten: a missing age_group is passed on as it is.
DefaultAgeNone(age_group) == age_group

\* The handler's  age_group || '18-25'  (and the default of the parameter
\* ageGroup = "18-25" when the argument is omitted).
DefaultAge(age_group) == IF age_group = "" THEN "18-25" ELSE age_group

\* ---------------------------------------------------------------- resolver
\* The lookup without toLowerCase.
FeaturesRefCaseSensitive(moodKey) ==
  IF moodKey \in MoodKeys THEN moodKey
  ELSE IF moodKey \in ObjectPrototypeProps THEN "Object"
  ELSE "happy"

\* Which object `features` refers to after
\*   MOOD_FEATURES[moodKey.toLowerCase()] || MOOD_FEATURES.happy :
\* the name of a table entry, or "Object" for the inherited constructor.
FeaturesRef(moodKey) ==
  LET k == ToLowerCase(moodKey)
  IN  IF k \in MoodKeys THEN k
      ELSE IF k \in ObjectPrototypeProps THEN "Object"
      ELSE "happy"

\* An unrecognized age group given the adjustments of the default bracket.
AdjustmentsDefaultBracket(ageGroup) ==
  IF ageGroup \in DOMAIN AGE_ADJUSTMENTS THEN AGE_ADJUSTMENTS[ageGroup]
  ELSE AGE_ADJUSTMENTS["18-25"]

\* AGE_ADJUSTMENTS[ageGroup] || {}
Adjustments(ageGroup) ==
  IF ageGroup \in DOMAIN AGE_ADJUSTMENTS THEN AGE_ADJUSTMENTS[ageGroup] ELSE << >>

\* MOOD_GENRES[moodKey.toLowerCase()] || "pop"
Genres(moodKey) ==
  LET k == ToLowerCase(moodKey)
  IN  IF k \in DOMAIN MOOD_GENRES THEN MOOD_GENRES[k]
      ELSE IF k \in ObjectPrototypeProps THEN "function Object() { [native code] }"
      ELSE "pop"

\* The clamp with its lower bound forgotten: Math.min(1, x).
ClampUnitNoFloor(x) == Min(One, x)

\* Math.max(0, Math.min(1, x))
ClampUnit(x) == Max(0, Min(One, x))

\* Math.max(50, x)
ClampTempo(x) == Max(TempoFloor, x)

\* One turn of the forEach body on a table entry.  Every entry owns all five
\* keys, "tempo" included, so hasOwnProperty(key) decides for the first branch;
\* the else-if branch is taken only by an object that owns no "tempo", whose
\* features.tempo is undefined and whose sum with the delta is NaN.
AdjustKey(features, key, delta) ==
  IF key \in DOMAIN features
    THEN [features EXCEPT ![key] = ClampUnit(features[key] + delta)]
  ELSE IF key = "tempo"
    THEN (key :> "NaN") @@ features
  ELSE features

\* Object.keys(adjustments).forEach(...), from the i-th pair on.
RECURSIVE ApplyFrom(_, _, _)
ApplyFrom(features, adj, i) ==
  IF i > Len(adj) THEN features
  ELSE ApplyFrom(AdjustKey(features, adj[i][1], adj[i][2]), adj, i + 1)

\* The forEach started one key late.
ApplyAdjustmentsSkipFirst(features, adj) == ApplyFrom(features, adj, 2)

ApplyAdjustments(features, adj) == ApplyFrom(features, adj, 1)

\* The same forEach when `features` is the function Object, given the set of
\* feature-named properties it owns (all of them NaN): an owned key is
\* overwritten with the clamp of NaN, which is NaN; "tempo" is created as NaN.
AdjustObject(own, adj) ==
  own \cup {adj[i][1] : i \in {j \in 1..Len(adj) : adj[j][1] = "tempo"}}

\* Number.prototype.toFixed(2) of x hundredths: sign, integer part, two decimals.
toFixed2(x) ==
  LET a == IF x < 0 THEN -x ELSE x
  IN  [neg |-> x < 0 /\ a > 0, whole |-> a \div One, frac |-> a % One]

\* The number a toFixed(2) string denotes, in hundredths.
Hundredths(s) == (IF s.neg THEN -1 ELSE 1) * (s.whole * One + s.frac)

\* Math.round of x hundredths: the nearest integer, halves upwards.
MathRound(x) == (x + (One \div 2)) \div One

\* new URLSearchParams({...}) of the request to /v1/recommendations.
BuildParams(features, genres) ==
  [ seed_genres         |-> genres,
    target_valence      |-> toFixed2(features.valence),
    target_energy       |-> toFixed2(features.energy),
    target_danceability |-> toFixed2(features.danceability),
    target_acousticness |-> toFixed2(features.acousticness),
    target_tempo        |-> MathRound(features.tempo) ]

\* The table after the resolution step of a call whose mood selects an entry.
TableAfter(table, moodKey, ageGroup) ==
  LET k == FeaturesRef(moodKey)
  IN  [table EXCEPT ![k] = ApplyAdjustments(table[k], Adjustments(ageGroup))]

\* The query parameters such a call sends when it finds the table as `table`.
ParamsOn(table, moodKey, ageGroup) ==
  BuildParams(TableAfter(table, moodKey, ageGroup)[FeaturesRef(moodKey)], Genres(moodKey))

\* ------------------------------------------------------------------- state
VARIABLES
  MOOD_FEATURES,  \* the module-level table, shared by all calls
  ObjectOwn,      \* feature-named properties the global function Object owns
  calls,          \* per call slot: where the call is suspended, and its arguments
  nCalls,         \* calls started so far
  last,           \* the most recent resolution step: its call and what it sent
  \* the page of src/mood.js and the log endpoint it talks to
  currentLogId,        \* id of the row play_seconds updates go to, or NoLogId
  currentPlaySeconds,  \* seconds played, as the last timeupdate left it
  saves,          \* per save slot: where a POST /api/log is, and the row id
  nextId,         \* the id the store gives the next inserted row
  nSaves,         \* saves started so far
  sentUpdate,     \* the most recent play_seconds update sent, and their count
  lastSaved,      \* id returned by the most recent save that returned one
  unloaded        \* the page has been unloaded

serverVars == << MOOD_FEATURES, ObjectOwn, calls, nCalls, last >>

pageVars == << currentLogId, currentPlaySeconds, saves, nextId, nSaves,
               sentUpdate, lastSaved, unloaded >>

vars == << serverVars, pageVars >>

Slots == 1 .. MaxInFlight

\* A slot no call has used yet.  A call keeps the age_group of its request
\* body and, for reference, the table as it was when the call started.
Idle == [pc |-> "idle", moodKey |-> "", ageGroup |-> "", age_group |-> "",
         before |-> MoodFeaturesInit]

\* The ways a call ends in an error.
Errors == {"token request failed", "no token", "TypeError", "recommendations failed"}

\* The call of slot c is suspended at one of its awaits.
InFlight(c) == calls[c].pc \in {"token", "fetch"}

\* The slot of a call that has ended: pc tells how ("returned", or the error).
Ended(call, how) ==
  [pc |-> how, moodKey |-> "", ageGroup |-> "", age_group |-> "",
   before |-> call.before]

NoParams ==
  [ seed_genres |-> "", target_valence |-> toFixed2(0), target_energy |-> toFixed2(0),
    target_danceability |-> toFixed2(0), target_acousticness |-> toFixed2(0),
    target_tempo |-> 0 ]

\* let currentLogId = null
NoLogId == 0

SaveSlots == 1 .. MaxSaveSlots

NoSave == [pc |-> "idle", id |-> NoLogId]

\* The page as the script leaves it when it has run.
PageInit ==
  /\ currentLogId = NoLogId
  /\ currentPlaySeconds = 0
  /\ saves = [s \in SaveSlots |-> NoSave]
  /\ nextId = 1
  /\ nSaves = 0
  /\ sentUpdate = [n |-> 0, to |-> NoLogId, play_seconds |-> 0, via |-> "none"]
  /\ lastSaved = NoLogId
  /\ unloaded = FALSE

Init ==
  /\ PageInit
  /\ MOOD_FEATURES = MoodFeaturesInit
  /\ ObjectOwn = {}
  /\ calls = [c \in Slots |-> Idle]
  /\ nCalls = 0
  /\ last = [n |-> 0, status |-> "none", moodKey |-> "", ageGroup |-> "",
             overlap |-> FALSE, params |-> NoParams]

\* --------------------------------------------------------------- operations
\* POST /api/recommendations with body {mood, age_group}: the handler defaults
\* the age group and calls getRecommendationsByMoodAndAge, which runs up to
\* the await of the token request.
PostRecommendations(c, mood, age_group, limit) ==
  /\ ~InFlight(c)
  /\ nCalls < limit
  /\ mood # ""
  /\ calls' = [calls EXCEPT ![c] =
       [pc |-> "token", moodKey |-> mood, ageGroup |-> DefaultAge(age_group),
        age_group |-> age_group, before |-> MOOD_FEATURES]]
  /\ nCalls' = nCalls + 1
  /\ UNCHANGED << MOOD_FEATURES, ObjectOwn, last, pageVars >>

\* getSpotifyToken throws (the token response is not ok, or fetch rejects):
\* the call rejects before it touches anything.
TokenRequestFails(c) ==
  /\ calls[c].pc = "token"
  /\ calls' = [calls EXCEPT ![c] = Ended(calls[c], "token request failed")]
  /\ UNCHANGED << MOOD_FEATURES, ObjectOwn, nCalls, last, pageVars >>

\* getSpotifyToken returns null: "No Spotify access token available."
TokenMissing(c) ==
  /\ calls[c].pc = "token"
  /\ calls' = [calls EXCEPT ![c] = Ended(calls[c], "no token")]
  /\ UNCHANGED << MOOD_FEATURES, ObjectOwn, nCalls, last, pageVars >>

\* The token arrives: the call runs, without suspending, from the lookup of
\* the base features to the fetch of the recommendations.
Resolve(c) ==
  /\ calls[c].pc = "token"
  /\ LET m   == calls[c].moodKey
         a   == calls[c].ageGroup
         ref == FeaturesRef(m)
         ovl == \E d \in Slots \ {c} : InFlight(d)
     IN  IF ref = "Object"
           THEN \* Object has no valence: features.valence.toFixed throws a
                \* TypeError after the forEach has run on Object itself.
                /\ ObjectOwn' = AdjustObject(ObjectOwn, Adjustments(a))
                /\ calls' = [calls EXCEPT ![c] = Ended(calls[c], "TypeError")]
                /\ last' = [n |-> last.n + 1, status |-> "TypeError", moodKey |-> m,
                            ageGroup |-> a, overlap |-> ovl, params |-> NoParams]
                /\ UNCHANGED MOOD_FEATURES
           ELSE /\ MOOD_FEATURES' = TableAfter(MOOD_FEATURES, m, a)
                /\ calls' = [calls EXCEPT ![c].pc = "fetch"]
                /\ last' = [n |-> last.n + 1, status |-> "sent", moodKey |-> m,
                            ageGroup |-> a, overlap |-> ovl,
                            params |-> ParamsOn(MOOD_FEATURES, m, a)]
                /\ UNCHANGED ObjectOwn
  /\ UNCHANGED << nCalls, pageVars >>

\* The recommendations response is ok: the call returns its tracks.
RecommendationsOk(c) ==
  /\ calls[c].pc = "fetch"
  /\ calls' = [calls EXCEPT ![c] = Ended(calls[c], "returned")]
  /\ UNCHANGED << MOOD_FEATURES, ObjectOwn, nCalls, last, pageVars >>

\* The recommendations response is not ok: the call throws.
RecommendationsFail(c) ==
  /\ calls[c].pc = "fetch"
  /\ calls' = [calls EXCEPT ![c] = Ended(calls[c], "recommendations failed")]
  /\ UNCHANGED << MOOD_FEATURES, ObjectOwn, nCalls, last, pageVars >>

\* Requests served one at a time: each call is awaited before the next starts.
Next ==
  \/ \E m \in MoodInputs, g \in BodyAgeGroups : PostRecommendations(1, m, g, MaxCalls)
  \/ TokenRequestFails(1)
  \/ TokenMissing(1)
  \/ Resolve(1)
  \/ RecommendationsOk(1)
  \/ RecommendationsFail(1)

Spec == Init /\ [][Next]_vars

\* Requests served as they arrive: up to MaxInFlight calls are suspended at
\* once and resume in any order.
ConcNext ==
  \E c \in Slots :
    \/ \E m \in MoodInputs, g \in BodyAgeGroups : PostRecommendations(c, m, g, MaxConcCalls)
    \/ TokenRequestFails(c)
    \/ TokenMissing(c)
    \/ Resolve(c)
    \/ RecommendationsOk(c)
    \/ RecommendationsFail(c)

SpecConc == Init /\ [][ConcNext]_vars

\* ------------------------------------------------------- the page (mood.js)
\* if(!currentLogId) return  /  if(currentLogId){ ... }
HasLogIdAlways(id) == TRUE

HasLogId(id) == id # NoLogId

\* useTrackAsSuggestion with a mood selected: the page posts the mood log and
\* awaits the response.
UseTrackAsSuggestion(s) ==
  /\ ~unloaded
  /\ saves[s].pc = "idle"
  /\ nSaves < MaxSaves
  /\ saves' = [saves EXCEPT ![s].pc = "posted"]
  /\ nSaves' = nSaves + 1
  /\ UNCHANGED << currentLogId, currentPlaySeconds, nextId, sentUpdate, lastSaved,
                  unloaded, serverVars >>

\* POST /api/log: the store inserts the row and the server answers
\* {inserted: [row]} with the id the store gave the row.
LogInserted(s) ==
  /\ saves[s].pc = "posted"
  /\ saves' = [saves EXCEPT ![s] = [pc |-> "inserted", id |-> nextId]]
  /\ nextId' = nextId + 1
  /\ UNCHANGED << currentLogId, currentPlaySeconds, nSaves, sentUpdate, lastSaved,
                  unloaded, serverVars >>

\* POST /api/log answers ok with a body that carries no row id.
LogInsertedNoRow(s) ==
  /\ saves[s].pc = "posted"
  /\ saves' = [saves EXCEPT ![s].pc = "norow"]
  /\ UNCHANGED << currentLogId, currentPlaySeconds, nextId, nSaves, sentUpdate,
                  lastSaved, unloaded, serverVars >>

\* POST /api/log answers with an error status (store not configured, insert
\* refused, exception).
LogRejected(s) ==
  /\ saves[s].pc = "posted"
  /\ saves' = [saves EXCEPT ![s].pc = "rejected"]
  /\ UNCHANGED << currentLogId, currentPlaySeconds, nextId, nSaves, sentUpdate,
                  lastSaved, unloaded, serverVars >>

\* The page reads a response with json.inserted[0].id: the id becomes current.
SaveReturnedId(s) ==
  /\ ~unloaded
  /\ saves[s].pc = "inserted"
  /\ currentLogId' = saves[s].id
  /\ lastSaved' = saves[s].id
  /\ saves' = [saves EXCEPT ![s] = NoSave]
  /\ UNCHANGED << currentPlaySeconds, nextId, nSaves, sentUpdate, unloaded, serverVars >>

\* The page reads an ok response without an id: 'Saved mood log', nothing kept.
SaveReturnedNoId(s) ==
  /\ ~unloaded
  /\ saves[s].pc = "norow"
  /\ saves' = [saves EXCEPT ![s] = NoSave]
  /\ UNCHANGED << currentLogId, currentPlaySeconds, nextId, nSaves, sentUpdate,
                  lastSaved, unloaded, serverVars >>

\* The page reads a response that is not ok: 'Failed to save mood log'.
SaveNotOk(s) ==
  /\ ~unloaded
  /\ saves[s].pc = "rejected"
  /\ saves' = [saves EXCEPT ![s] = NoSave]
  /\ UNCHANGED << currentLogId, currentPlaySeconds, nextId, nSaves, sentUpdate,
                  lastSaved, unloaded, serverVars >>

\* fetch rejects (the request or its response is lost): the catch clause runs.
SaveThrows(s) ==
  /\ ~unloaded
  /\ saves[s].pc \in {"posted", "inserted", "norow", "rejected"}
  /\ saves' = [saves EXCEPT ![s] = NoSave]
  /\ UNCHANGED << currentLogId, currentPlaySeconds, nextId, nSaves, sentUpdate,
                  lastSaved, unloaded, serverVars >>

\* The player's timeupdate event.
TimeUpdate(t) ==
  /\ ~unloaded
  /\ currentPlaySeconds' = t
  /\ UNCHANGED << currentLogId, saves, nextId, nSaves, sentUpdate, lastSaved,
                  unloaded, serverVars >>

\* flushPlaySeconds, called by the player's pause and ended events: a PATCH
\* to /api/log/<currentLogId>, if there is a current id.
FlushPlaySeconds(how) ==
  /\ ~unloaded
  /\ sentUpdate.n < MaxUpdates
  /\ sentUpdate' =
       IF HasLogId(currentLogId)
         THEN [n |-> sentUpdate.n + 1, to |-> currentLogId,
               play_seconds |-> currentPlaySeconds, via |-> how]
         ELSE sentUpdate
  /\ UNCHANGED << currentLogId, currentPlaySeconds, saves, nextId, nSaves, lastSaved,
                  unloaded, serverVars >>

Pause == FlushPlaySeconds("PATCH on pause")

PlayEnded == FlushPlaySeconds("PATCH on ended")

\* beforeunload: a beacon to /api/log/<currentLogId>, if there is a current
\* id; the page is gone afterwards.
BeforeUnload ==
  /\ ~unloaded
  /\ sentUpdate.n < MaxUpdates
  /\ unloaded' = TRUE
  /\ sentUpdate' =
       IF HasLogId(currentLogId)
         THEN [n |-> sentUpdate.n + 1, to |-> currentLogId,
               play_seconds |-> currentPlaySeconds, via |-> "beacon"]
         ELSE sentUpdate
  /\ UNCHANGED << currentLogId, currentPlaySeconds, saves, nextId, nSaves, lastSaved,
                  serverVars >>

PageNext ==
  \/ \E s \in SaveSlots : UseTrackAsSuggestion(s)
  \/ \E s \in SaveSlots : LogInserted(s)
  \/ \E s \in SaveSlots : LogInsertedNoRow(s)
  \/ \E s \in SaveSlots : LogRejected(s)
  \/ \E s \in SaveSlots : SaveReturnedId(s)
  \/ \E s \in SaveSlots : SaveReturnedNoId(s)
  \/ \E s \in SaveSlots : SaveNotOk(s)
  \/ \E s \in SaveSlots : SaveThrows(s)
  \/ \E t \in 0 .. MaxPlaySeconds : TimeUpdate(t)
  \/ Pause
  \/ PlayEnded
  \/ BeforeUnload

SpecPage == Init /\ [][PageNext]_vars

\* ---------------------------------------------------------------- properties
\* The mood of the most recent resolution names one of the five table entries.
LastMoodKnown == ToLowerCase(last.moodKey) \in MoodKeys

\* The age group of the most recent resolution is one of the five brackets.
LastAgeKnown == last.ageGroup \in AgeBrackets

\* The most recent resolution sent a recommendations query.
LastSent == last.status = "sent"

\* The delta a bracket's adjustment record gives a key (0 when it has none).
RECURSIVE DeltaFrom(_, _, _)
DeltaFrom(adj, key, i) ==
  IF i > Len(adj) THEN 0
  ELSE IF adj[i][1] = key THEN adj[i][2]
  ELSE DeltaFrom(adj, key, i + 1)

DeltaOf(ageGroup, key) == DeltaFrom(Adjustments(ageGroup), key, 1)

KeysOf(ageGroup) == {Adjustments(ageGroup)[i][1] : i \in 1 .. Len(Adjustments(ageGroup))}

BoundedKeys == {"valence", "energy", "danceability", "acousticness"}

\* The transmitted value of a bounded feature, in hundredths.
Sent(params, key) ==
  Hundredths(CASE key = "valence"      -> params.target_valence
               [] key = "energy"       -> params.target_energy
               [] key = "danceability" -> params.target_danceability
               [] key = "acousticness" -> params.target_acousticness)

\* C1: for every known mood and every age bracket the tempo a call sends after
\* the age adjustment is at least 50, on the first call and after any earlier
\* calls.
C1_TempoAtLeast50 ==
  (LastSent /\ LastMoodKnown /\ LastAgeKnown) => last.params.target_tempo >= 50

\* C2: two calls with the same mood and the same age group, resolved one after
\* the other, send identical feature values and genre seeds.
C2_Idempotent ==
  [][ ( /\ last.status = "sent"
        /\ last'.status = "sent"
        /\ last'.n = last.n + 1
        /\ last'.moodKey = last.moodKey
        /\ last'.ageGroup = last.ageGroup )
      => last'.params = last.params ]_vars

\* C3: the lookup tables are read-only after startup: in every reachable state
\* every entry of MOOD_FEATURES has its initial value (AGE_ADJUSTMENTS and
\* MOOD_GENRES are never assigned to and are constants of this module).
C3_TablesReadOnly == MOOD_FEATURES = MoodFeaturesInit

\* C4: after any sequence of calls, valence, energy, danceability and
\* acousticness lie in [0,1], in every table entry and in every query sent.
C4_BoundedInUnit ==
  /\ \A m \in MoodKeys : \A k \in BoundedKeys :
       MOOD_FEATURES[m][k] >= 0 /\ MOOD_FEATURES[m][k] <= One
  /\ LastSent => \A k \in BoundedKeys :
       Sent(last.params, k) >= 0 /\ Sent(last.params, k) <= One

\* C4 witness: calm has been resolved three times with "50+" (acousticness
\* 0.70 + 3 * 0.08), so its energy 0.20 - 3 * 0.10 was clamped up to 0.
C4_Witness ==
  /\ LastSent /\ last.n = 3
  /\ last.moodKey = "calm" /\ last.ageGroup = "50+"
  /\ MOOD_FEATURES.calm.acousticness = 94
  /\ last.params.target_energy = toFixed2(0)

\* C5: on a fresh process a known mood and a known bracket send the tempo
\* max(50, baseTempo + tempoDelta), with no upper clamp.
C5_FreshTempo ==
  (LastSent /\ last.n = 1 /\ LastMoodKnown /\ LastAgeKnown) =>
    last.params.target_tempo * One =
      Max(TempoFloor, MoodFeaturesInit[ToLowerCase(last.moodKey)].tempo
                        + DeltaOf(last.ageGroup, "tempo"))

\* C6: on a fresh process, for a known mood and a known bracket, each of
\* valence, energy, danceability, acousticness named in the bracket's
\* adjustment record is sent as clamp(base + delta, 0, 1) in hundredths; sad
\* with 13-17 sends 0.20, 0.28, 0.30, 0.80 and "indie,alternative,folk", calm
\* with 50+ sends 0.30, 0.10, 0.30, 0.78.
C6_FreshBounded ==
  (LastSent /\ last.n = 1 /\ LastMoodKnown /\ LastAgeKnown) =>
    LET base == MoodFeaturesInit[ToLowerCase(last.moodKey)]
        p    == last.params
    IN  /\ \A k \in BoundedKeys \cap KeysOf(last.ageGroup) :
             Sent(p, k) = Max(0, Min(100, base[k] + DeltaOf(last.ageGroup, k)))
        /\ (last.moodKey = "sad" /\ last.ageGroup = "13-17") =>
             /\ Sent(p, "valence") = 20 /\ Sent(p, "energy") = 28
             /\ Sent(p, "danceability") = 30 /\ Sent(p, "acousticness") = 80
             /\ p.seed_genres = "indie,alternative,folk"
        /\ (last.moodKey = "calm" /\ last.ageGroup = "50+") =>
             /\ Sent(p, "valence") = 30 /\ Sent(p, "energy") = 10
             /\ Sent(p, "danceability") = 30 /\ Sent(p, "acousticness") = 78

\* C6 witness: the first call of the process was sad with 13-17 and sent
\* energy 0.28 and danceability 0.30.
C6_Witness ==
  /\ LastSent /\ last.n = 1
  /\ last.moodKey = "sad" /\ last.ageGroup = "13-17"
  /\ last.params.target_energy = toFixed2(28)
  /\ last.params.target_danceability = toFixed2(30)

\* C7: a call whose mood string is none of the five keys sends, for the same
\* age bracket and the same prior table, exactly what a call with "happy"
\* sends: the same five feature values and the same genre seeds.  (Stated of
\* the calls that send a query; the ones that raise instead are C9's.)
C7_UnknownMoodAsHappy ==
  [][ ( /\ last'.n = last.n + 1
        /\ last'.status = "sent"
        /\ ToLowerCase(last'.moodKey) \notin MoodKeys )
      => last'.params = ParamsOn(MOOD_FEATURES, "happy", last'.ageGroup) ]_vars

\* C8: a call with a known mood and an age string that is none of the five
\* brackets sends the unadjusted base profile of that mood as the initial
\* MOOD_FEATURES table defines it, whatever calls were made before.
C8_UnknownAgeIsBase ==
  (LastSent /\ LastMoodKnown /\ ~LastAgeKnown) =>
    last.params = BuildParams(MoodFeaturesInit[ToLowerCase(last.moodKey)],
                              Genres(last.moodKey))

\* C9: the resolution step never raises: for every mood string and every age
\* string, once the token is there, it yields a profile and genre seeds.
C9_ResolverNeverRaises == last.n > 0 => last.status = "sent"

\* C10: a call that resolves while other calls are in flight sends what it
\* sends when run alone on a fresh process.
C10_ConcurrentAsFresh ==
  (LastSent /\ last.overlap) =>
    last.params = ParamsOn(MoodFeaturesInit, last.moodKey, last.ageGroup)

\* C11: a call whose mood and age bracket are both unrecognized sends happy's
\* base profile with no adjustment applied and the genre seed "pop".  (Stated
\* of the calls that send a query; the ones that raise instead are C9's.)
C11_BothFallbacks ==
  (LastSent /\ ~LastMoodKnown /\ ~LastAgeKnown) =>
    last.params = BuildParams(MoodFeaturesInit.happy, "pop")

\* C12: a request without an age group (age_group missing or empty, or the
\* argument omitted) resolves as one that passes "18-25" does in the same
\* state: it sends the same query and leaves the same table.
C12_AbsentAgeIs1825 ==
  \A c \in Slots :
    (calls[c].pc = "fetch" /\ calls[c].age_group = "") =>
      /\ last.params = ParamsOn(calls[c].before, calls[c].moodKey, "18-25")
      /\ MOOD_FEATURES = TableAfter(calls[c].before, calls[c].moodKey, "18-25")

\* C12 witness: the first request of the process was sad without an age group
\* and sent danceability 0.25 + 0.02.
C12_Witness ==
  /\ calls[1].pc = "fetch" /\ calls[1].age_group = ""
  /\ calls[1].moodKey = "sad" /\ last.n = 1
  /\ last.params.target_danceability = toFixed2(27)

\* C13: a mood string that differs from a mood key only in letter case ("SAD",
\* "Sad") selects, for every age group, the profile and the genre seeds of
\* that key ("sad").
C13_CaseInsensitive ==
  \A c \in Slots :
    (calls[c].pc = "fetch" /\ calls[c].moodKey \in {"SAD", "Sad"}) =>
      /\ last.params = ParamsOn(calls[c].before, "sad", calls[c].ageGroup)
      /\ MOOD_FEATURES = TableAfter(calls[c].before, "sad", calls[c].ageGroup)

\* C13 witness: a call with "Sad" and "50+" sent the genre seeds of sad.
C13_Witness ==
  /\ calls[1].pc = "fetch" /\ calls[1].moodKey = "Sad" /\ calls[1].ageGroup = "50+"
  /\ last.params.seed_genres = "indie,alternative,folk"

\* The profile the claims say a mood string selects: its key whatever the
\* letter case, happy's when it is unrecognized.
SelectedProfile(mood) ==
  IF mood \in MoodKeys THEN mood
  ELSE IF mood \in {"SAD", "Sad"} THEN "sad"
  ELSE "happy"

\* The fields the adjustment record of an age group names.
NamedKeys(ageGroup) ==
  IF ageGroup \in AgeBrackets
    THEN {AGE_ADJUSTMENTS[ageGroup][i][1] : i \in 1 .. Len(AGE_ADJUSTMENTS[ageGroup])}
    ELSE {}

\* C14: a call changes only fields named in the adjustment record of its age
\* group, and only in the profile its mood selects: every other field of the
\* table has the same value after any step as before it.
C14_Frame ==
  [][ \A m \in MoodKeys : \A k \in DOMAIN MoodFeaturesInit[m] :
        MOOD_FEATURES'[m][k] # MOOD_FEATURES[m][k] =>
          /\ last'.n = last.n + 1
          /\ m = SelectedProfile(last'.moodKey)
          /\ k \in NamedKeys(last'.ageGroup) ]_vars

\* C14 witness: the first call was sad with 26-35; acousticness is adjusted,
\* energy (not named by 26-35) and every other profile are as they were.
C14_Witness ==
  /\ LastSent /\ last.n = 1
  /\ last.moodKey = "sad" /\ last.ageGroup = "26-35"
  /\ MOOD_FEATURES.sad.acousticness = 83
  /\ MOOD_FEATURES.sad.energy = MoodFeaturesInit.sad.energy
  /\ \A m \in MoodKeys \ {"sad"} : MOOD_FEATURES[m] = MoodFeaturesInit[m]

\* C15: a call that ends in an error (token request failed, no token, or
\* recommendations response not ok) leaves the table as it was before the call.
C15_FailedCallLeavesTable ==
  \A c \in Slots : calls[c].pc \in Errors => MOOD_FEATURES = calls[c].before

\* C16: a play_seconds update (PATCH on pause or ended, beacon on unload) is
\* sent only after a save has returned a row id, and it is addressed to the
\* id the most recent such save returned; before any such save none is sent.
C16_UpdateToLastSaved ==
  [][ sentUpdate'.n # sentUpdate.n =>
        /\ lastSaved # NoLogId
        /\ sentUpdate'.to = lastSaved ]_vars

\* C16 witness: two saves returned ids 1 and 2, a later save failed, and an
\* update was then sent to row 2.
C16_Witness ==
  /\ sentUpdate.n > 0 /\ sentUpdate.to = 2
  /\ lastSaved = 2 /\ nextId = 3
  /\ nSaves = 3 /\ \A s \in SaveSlots : saves[s].pc = "idle"

====
